---- MODULE Spec2Model ----
(***************************************************************************)
(* Model of the extension-environment bootstrapper of emblem               *)
(* (src/ext/ext-env.c): creation and teardown of an ExtensionEnv, the      *)
(* globals it injects into the Lua runtime, the tiered loading of the Lua  *)
(* standard libraries and the guest-callable rerun request.                *)
(***************************************************************************)
EXTENDS Integers, Sequences, FiniteSets, TLC

\* ------------------------------------------------------------------ bounds
LvlBelow == 1      \* sandbox levels modelled below 0
LvlAbove == 1      \* sandbox levels modelled above 2
MaxIter == 2       \* passes the driver may start
MaxArgs == 1       \* arguments a guest passes to requires_reiter
MaxRc == 1         \* largest status code of an external loader
NumNodeTypes == 2  \* length of node_tree_content_type_names

Levels == (0 - LvlBelow)..(2 + LvlAbove)
RcValues == 0..MaxRc

\* ------------------------------------------------------- guest-visible names
EM_EVAL_NODE_FUNC_NAME == "eval"
EM_REQUIRE_RUNS_FUNC_NAME == "requires_reiter"
EM_NODE_TYPES_TABLE == "node_types"
EM_ITER_NUM_VAR_NAME == "EM_ITER_NUM_VAR_NAME"
EM_ENV_VAR_NAME == "EM_ENV_VAR_NAME"
EM_ARGS_VAR_NAME == "EM_ARGS_VAR_NAME"
EM_MT_NAMES_LIST_VAR_NAME == "EM_MT_NAMES_LIST_VAR_NAME"
EM_IMPORT_STYLESHEET_FUNC_NAME == "EM_IMPORT_STYLESHEET_FUNC_NAME"
EM_INCLUDE_FILE_FUNC_NAME == "EM_INCLUDE_FILE_FUNC_NAME"
STYLER_LP_LOC == "STYLER_LP_LOC"
USER_VAR == "user_var"

\* ------------------------------------------------------------- Lua values
Nil == [kind |-> "nil", n |-> 0, ref |-> ""]
Integer(i) == [kind |-> "integer", n |-> i, ref |-> ""]
LightUserdata(p) == [kind |-> "lightuserdata", n |-> 0, ref |-> p]
Table(t) == [kind |-> "table", n |-> 0, ref |-> t]
CFunction(f) == [kind |-> "function", n |-> 0, ref |-> f]

\* ------------------------------------------------- capability tier table
NULL == "NULL"
Reg(name, func) == [name |-> name, func |-> func]

lua_std_libs_universal ==
    << Reg("", "luaopen_base"),
       Reg("package", "luaopen_package"),
       Reg("coroutine", "luaopen_coroutine"),
       Reg("utf8", "luaopen_utf8"),
       Reg("table", "luaopen_table"),
       Reg("string", "luaopen_string"),
       Reg("math", "luaopen_math"),
       Reg("debug", "luaopen_debug"),
       Reg(NULL, NULL) >>

lua_std_libs_restriction_lvl_1 ==
    << Reg("io", "luaopen_io"),
       Reg(NULL, NULL) >>

lua_std_libs_restriction_lvl_0 ==
    << Reg("os", "luaopen_os"),
       Reg(NULL, NULL) >>

LibNamesOf(lib) == { lib[i].name : i \in { j \in DOMAIN lib : lib[j].func # NULL } }

LibNames ==
    LibNamesOf(lua_std_libs_universal) \cup LibNamesOf(lua_std_libs_restriction_lvl_1)
        \cup LibNamesOf(lua_std_libs_restriction_lvl_0)

GlobalNames ==
    { EM_ITER_NUM_VAR_NAME, EM_ENV_VAR_NAME, EM_NODE_TYPES_TABLE, EM_ARGS_VAR_NAME,
      EM_MT_NAMES_LIST_VAR_NAME, EM_EVAL_NODE_FUNC_NAME, EM_REQUIRE_RUNS_FUNC_NAME,
      EM_IMPORT_STYLESHEET_FUNC_NAME, EM_INCLUDE_FILE_FUNC_NAME, STYLER_LP_LOC, USER_VAR }
        \cup LibNames

\* ------------------------------------------------------------ tagged handles
STYLER == "STYLER"
EXT_ENV == "EXT_ENV"
PARSED_ARGS == "PARSED_ARGS"
MT_NAMES_LIST == "MT_NAMES_LIST"

HandleFields == { "styler", "selfp", "args", "mt_names_list" }

\* a LuaPointer field of the ExtensionEnv that make_ext_env has not yet set
Unallocated == [mem |-> "uninit", type |-> "?", data |-> "?"]

\* the log of what make_ext_env and dest_ext_env did, in order
Step(M, act, name, val) ==
    [M EXCEPT !.steps = Append(@, [act |-> act, name |-> name, val |-> val])]

malloc(M, field) ==
    Step([M EXCEPT !.ext[field] = [mem |-> "alloc", type |-> "?", data |-> "?"]],
         "malloc", field, Nil)

make_lua_pointer(M, field, type, data) ==
    [M EXCEPT !.ext[field] = [mem |-> M.ext[field].mem, type |-> type, data |-> data]]

\* --------------------------------------------------------- Lua runtime API
luaL_newstate(M) ==
    [M EXCEPT !.lua = [status |-> "open",
                       globals |-> [g \in GlobalNames |-> Nil],
                       loaded |-> {},
                       node_types |-> [k \in {} |-> 0],
                       stack |-> << >>]]

\* the value stack of the running C function
lua_gettop(M) == Len(M.lua.stack)

Top(M) == M.lua.stack[Len(M.lua.stack)]

Push(M, v) == [M EXCEPT !.lua.stack = Append(@, v)]

lua_pop(M, n) == [M EXCEPT !.lua.stack = SubSeq(@, 1, Len(@) - n)]

lua_pushinteger(M, i) == Push(M, Integer(i))

lua_pushlightuserdata(M, p) == Push(M, LightUserdata(p))

\* pops the value on top of the stack and binds it to the global
lua_setglobal(M, name) ==
    Step(lua_pop([M EXCEPT !.lua.globals[name] = Top(M)], 1), "lua_setglobal", name, Top(M))

\* lua_setfield(s, -2, key): pops the integer on top and stores it in the
\* table below it
lua_setfield(M, key) ==
    lua_pop([M EXCEPT !.lua.node_types =
                [k \in DOMAIN @ \cup {key} |-> IF k = key THEN Top(M).n ELSE @[k]]], 1)

\* luaL_requiref(s, name, func, 1): registers the library, binds it to the
\* global of its name and leaves it on the stack
luaL_requiref(M, name, func) ==
    Push(Step([M EXCEPT !.lua.loaded = @ \cup {name},
                        !.lua.globals[name] = Table(name)],
              "luaL_requiref", name, Table(name)),
         Table(name))

lua_register(M, name, func) ==
    Step([M EXCEPT !.lua.globals[name] = CFunction(func)], "lua_register", name, CFunction(func))

lua_newtable(M) ==
    Push([M EXCEPT !.lua.node_types = [k \in {} |-> 0]], Table(EM_NODE_TYPES_TABLE))

lua_getglobal(M, name) == Push(M, M.lua.globals[name])

\* lua_close is entered: the runtime runs the guest's finalisers while it closes
lua_close(M) ==
    Step([M EXCEPT !.lua.status = IF @ = "open" THEN "closing" ELSE "invalid_close"],
         "lua_close", "state", Nil)

\* lua_close returns
lua_close_return(M) ==
    [M EXCEPT !.lua.status = IF @ = "closing" THEN "closed" ELSE "invalid_close"]

\* ----------------------------------------------------------- collaborators
NodeTypeNamePool == << "word", "call", "content", "lines", "par", "par_part" >>

node_tree_content_type_names_len == NumNodeTypes

\* C array, indexed from 0
node_tree_content_type_names(i) == NodeTypeNamePool[i + 1]

provide_styler(M) ==
    Step([M EXCEPT !.lua.globals[STYLER_LP_LOC] = LightUserdata("styler")],
         "provide_styler", STYLER_LP_LOC, LightUserdata("styler"))

rescind_styler(M) == [M EXCEPT !.lua.globals[STYLER_LP_LOC] = Nil]

\* validated retrieval of a tagged handle: fails closed on anything that is
\* not a handle of the expected type
to_userdata_pointer(M, v, type) ==
    IF v.kind = "lightuserdata" /\ v.ref \in HandleFields
          /\ M.ext[v.ref].mem = "alloc" /\ M.ext[v.ref].type = type
    THEN [rc |-> 0, val |-> M.ext[v.ref].data]
    ELSE [rc |-> 1, val |-> "?"]

\* ------------------------------------------------------------- set_globals
\* variant: the ordinals are counted from 1
RECURSIVE set_globals_loop_from_one(_, _)
set_globals_loop_from_one(M, i) ==
    IF i < node_tree_content_type_names_len
    THEN set_globals_loop_from_one(
             lua_setfield(lua_pushinteger(M, i + 1), node_tree_content_type_names(i)), i + 1)
    ELSE M

RECURSIVE set_globals_loop(_, _)
set_globals_loop(M, i) ==
    IF i < node_tree_content_type_names_len
    THEN set_globals_loop(
             lua_setfield(lua_pushinteger(M, i), node_tree_content_type_names(i)), i + 1)
    ELSE M

\* statement sequencing: m is evaluated in full before rest is
Then(m, rest) == IF Len(m.steps) >= 0 THEN rest ELSE rest

\* entry to and return from a function, with the height of the stack
Enter(M, f) == Step(M, "enter", f, Integer(lua_gettop(M)))

Return(M, f) == Step(M, "return", f, Integer(lua_gettop(M)))

\* variant: the pass index is stored a second time at the end
set_globals_twice(M, params) ==
    LET m0 == Enter(M, "set_globals")
        m1 == lua_setglobal(lua_pushinteger(m0, 0), EM_ITER_NUM_VAR_NAME)
        m2 == make_lua_pointer(malloc(m1, "selfp"), "selfp", EXT_ENV, "ext")
        m3 == lua_setglobal(lua_pushlightuserdata(m2, "selfp"), EM_ENV_VAR_NAME)
        m4 == set_globals_loop(lua_newtable(m3), 0)
        m5 == lua_setglobal(m4, EM_NODE_TYPES_TABLE)
        m6 == make_lua_pointer(malloc(m5, "args"), "args", PARSED_ARGS, params.args)
        m7 == lua_setglobal(lua_pushlightuserdata(m6, "args"), EM_ARGS_VAR_NAME)
        m8 == make_lua_pointer(malloc(m7, "mt_names_list"), "mt_names_list",
                               MT_NAMES_LIST, params.mt_names_list)
        m9 == lua_setglobal(lua_pushlightuserdata(m8, "mt_names_list"),
                            EM_MT_NAMES_LIST_VAR_NAME)
        m10 == lua_setglobal(lua_pushinteger(m9, 0), EM_ITER_NUM_VAR_NAME)
    IN  Return(m10, "set_globals")

set_globals(M, params) ==
    LET m0 == Enter(M, "set_globals")
        m1 == lua_setglobal(lua_pushinteger(m0, 0), EM_ITER_NUM_VAR_NAME)
        m2 == make_lua_pointer(malloc(m1, "selfp"), "selfp", EXT_ENV, "ext")
        m3 == lua_setglobal(lua_pushlightuserdata(m2, "selfp"), EM_ENV_VAR_NAME)
        m4 == set_globals_loop(lua_newtable(m3), 0)
        m5 == lua_setglobal(m4, EM_NODE_TYPES_TABLE)
        m6 == make_lua_pointer(malloc(m5, "args"), "args", PARSED_ARGS, params.args)
        m7 == lua_setglobal(lua_pushlightuserdata(m6, "args"), EM_ARGS_VAR_NAME)
        m8 == make_lua_pointer(malloc(m7, "mt_names_list"), "mt_names_list",
                               MT_NAMES_LIST, params.mt_names_list)
        m9 == lua_setglobal(lua_pushlightuserdata(m8, "mt_names_list"),
                            EM_MT_NAMES_LIST_VAR_NAME)
    IN  Return(m9, "set_globals")

\* ---------------------------------------------------------- load_libraries
\* variant: the library luaL_requiref leaves on the stack is not removed
RECURSIVE load_library_set_from_nopop(_, _, _)
load_library_set_from_nopop(M, lib, i) ==
    IF lib[i].func # NULL
    THEN load_library_set_from_nopop(luaL_requiref(M, lib[i].name, lib[i].func), lib, i + 1)
    ELSE M

RECURSIVE load_library_set_from(_, _, _)
load_library_set_from(M, lib, i) ==
    IF lib[i].func # NULL
    THEN load_library_set_from(
             lua_pop(luaL_requiref(M, lib[i].name, lib[i].func), 1), lib, i + 1)
    ELSE M

load_library_set(M, lib) ==
    Return(load_library_set_from(Enter(M, "load_library_set"), lib, 1), "load_library_set")

\* variant: the comparison of the level is reversed
LOAD_LIBRARY_SET_reversed(lvl, M, lib, params) ==
    IF params.sandbox_lvl >= lvl THEN load_library_set(M, lib) ELSE M

\* variant: the comparison of the level is strict
LOAD_LIBRARY_SET_strict(lvl, M, lib, params) ==
    IF params.sandbox_lvl < lvl THEN load_library_set(M, lib) ELSE M

LOAD_LIBRARY_SET(lvl, M, lib, params) ==
    IF params.sandbox_lvl <= lvl THEN load_library_set(M, lib) ELSE M

load_em_std_functions(M) ==
    LET m1 == lua_register(M, EM_EVAL_NODE_FUNC_NAME, "ext_eval_tree")
        m2 == lua_register(m1, EM_IMPORT_STYLESHEET_FUNC_NAME, "ext_import_stylesheet")
        m3 == lua_register(m2, EM_REQUIRE_RUNS_FUNC_NAME, "ext_require_rerun")
    IN  lua_register(m3, EM_INCLUDE_FILE_FUNC_NAME, "ext_include_file")

\* variant: the io and os rows are attached to each other's level
load_libraries_swapped(M, params, rcStd) ==
    LET m1 == LOAD_LIBRARY_SET(2, M, lua_std_libs_universal, params)
        m2 == LOAD_LIBRARY_SET(1, m1, lua_std_libs_restriction_lvl_0, params)
        m3 == LOAD_LIBRARY_SET(0, m2, lua_std_libs_restriction_lvl_1, params)
        m4 == load_em_std_functions(m3)
    IN  Then(m1, Then(m2, Then(m3,
            [M |-> Step(m4, "load_em_std_lib", "state", Nil), rc |-> rcStd])))

\* variant: the host callables are registered as part of the universal row
load_libraries_funcs_in_tier(M, params, rcStd) ==
    LET m1 == LOAD_LIBRARY_SET(2, M, lua_std_libs_universal, params)
        m2 == LOAD_LIBRARY_SET(1, m1, lua_std_libs_restriction_lvl_1, params)
        m3 == LOAD_LIBRARY_SET(0, m2, lua_std_libs_restriction_lvl_0, params)
        m4 == IF params.sandbox_lvl <= 2 THEN load_em_std_functions(m3) ELSE m3
    IN  Then(m1, Then(m2, Then(m3,
            [M |-> Step(m4, "load_em_std_lib", "state", Nil), rc |-> rcStd])))

\* rcStd: the status the external load_em_std_lib returns
load_libraries(M, params, rcStd) ==
    LET m1 == LOAD_LIBRARY_SET(2, M, lua_std_libs_universal, params)
        m2 == LOAD_LIBRARY_SET(1, m1, lua_std_libs_restriction_lvl_1, params)
        m3 == LOAD_LIBRARY_SET(0, m2, lua_std_libs_restriction_lvl_0, params)
        m4 == load_em_std_functions(m3)
    IN  Then(m1, Then(m2, Then(m3,
            [M |-> Step(m4, "load_em_std_lib", "state", Nil), rc |-> rcStd])))

\* ------------------------------------------------------------ make_ext_env
\* variant: the iteration counter is left as it was found
init_env_fields_no_iter(M) ==
    Step([M EXCEPT !.ext.require_extra_run = TRUE], "init_fields", "ext", Nil)

\* lines 48-49: the fields make_ext_env initialises
init_env_fields(M) ==
    Step([M EXCEPT !.ext.require_extra_run = TRUE, !.ext.iter_num = 0],
         "init_fields", "ext", Nil)

\* variant: the status of load_libraries is not looked at
calls_load_extensions_always(rc) == TRUE

\* lines 58-61: a failed load_libraries returns at once, otherwise
\* load_extensions is called and its status is the result
calls_load_extensions(rc) == rc = 0

\* variant: the libraries are loaded, and a failure returned, before the
\* globals are injected
make_ext_env_libs_first(M, params, rcStd) ==
    LET m1 == init_env_fields(luaL_newstate(M))
        m2 == make_lua_pointer(malloc(m1, "styler"), "styler", STYLER, params.styler)
        m3 == provide_styler(m2)
        r == load_libraries(m3, params, rcStd)
    IN  Then(m3, Then(r.M,
            IF r.rc # 0 THEN r ELSE [M |-> set_globals(r.M, params), rc |-> r.rc]))

\* variant: the globals are injected before the styler is attached
make_ext_env_inject_first(M, params, rcStd) ==
    LET m1 == init_env_fields(luaL_newstate(M))
        m2 == make_lua_pointer(malloc(m1, "styler"), "styler", STYLER, params.styler)
        m3 == set_globals(m2, params)
        m4 == provide_styler(m3)
    IN  Then(m3, Then(m4, load_libraries(m4, params, rcStd)))

\* lines 47-59: make_ext_env up to the call of load_extensions
make_ext_env(M, params, rcStd) ==
    LET m1 == init_env_fields(luaL_newstate(M))
        m2 == make_lua_pointer(malloc(m1, "styler"), "styler", STYLER, params.styler)
        m3 == provide_styler(m2)
        m4 == set_globals(m3, params)
    IN  Then(m3, Then(m4, load_libraries(m4, params, rcStd)))

\* ------------------------------------------------------------ dest_ext_env
\* dest_lua_pointer and free of one handle; freeing what is not allocated
\* (never allocated, or freed before) is marked
free(M, field) ==
    Step([M EXCEPT !.ext[field].mem = IF @ = "alloc" THEN "freed" ELSE "invalid_free"],
         "free", field, Nil)

\* variant: the self handle is released before the runtime is closed
dest_ext_env_close_frees_first(M) == lua_close(free(M, "selfp"))

\* line 66: dest_ext_env enters lua_close
dest_ext_env_close(M) == lua_close(M)

\* lines 66-74: lua_close returns and the four handles are released
dest_ext_env(M) ==
    LET m1 == lua_close_return(M)
        m2 == free(m1, "mt_names_list")
        m3 == free(m2, "args")
        m4 == free(m3, "selfp")
    IN  free(m4, "styler")

\* variant: finalising also clears the rerun request
finalise_env_for_typesetting_clears(M) ==
    [rescind_styler(M) EXCEPT !.ext.require_extra_run = FALSE]

\* variant: finalising also releases the styler handle
finalise_env_for_typesetting_frees(M) == free(rescind_styler(M), "styler")

finalise_env_for_typesetting(M) == rescind_styler(M)

\* ------------------------------------------------------- ext_require_rerun
\* variant: the status of to_userdata_pointer is not looked at
ext_require_rerun_unchecked(M, warnRc) ==
    LET warned == lua_gettop(M) # 0
        m1 == lua_getglobal(M, EM_ENV_VAR_NAME)
        r == to_userdata_pointer(m1, Top(m1), EXT_ENV)
        m2 == lua_pop(m1, 1)
        res == [M |-> M, warned |-> warned, fatal |-> warned /\ warnRc # 0,
                resolved |-> FALSE, bound |-> Nil, env |-> "?",
                err |-> "none", returned |-> FALSE, nres |-> 0]
    IN  IF warned /\ warnRc # 0
        THEN [res EXCEPT !.err = "Warnings are fatal"]
        ELSE [res EXCEPT !.resolved = TRUE, !.bound = Top(m1), !.env = r.val,
                         !.M = [m2 EXCEPT !.ext.require_extra_run = TRUE],
                         !.returned = TRUE, !.nres = 0]

\* variant: the flag is set on entry, before the checks
ext_require_rerun_sets_first(M, warnRc) ==
    LET warned == lua_gettop(M) # 0
        m0 == [M EXCEPT !.ext.require_extra_run = TRUE]
        m1 == lua_getglobal(m0, EM_ENV_VAR_NAME)
        r == to_userdata_pointer(m1, Top(m1), EXT_ENV)
        m2 == lua_pop(m1, 1)
        res == [M |-> m0, warned |-> warned, fatal |-> warned /\ warnRc # 0,
                resolved |-> FALSE, bound |-> Nil, env |-> "?",
                err |-> "none", returned |-> FALSE, nres |-> 0]
    IN  IF warned /\ warnRc # 0
        THEN [res EXCEPT !.err = "Warnings are fatal"]
        ELSE IF r.rc # 0
        THEN [res EXCEPT !.M = m2, !.resolved = TRUE, !.bound = Top(m1),
                         !.err = "Invalid internal value"]
        ELSE [res EXCEPT !.resolved = TRUE, !.bound = Top(m1), !.env = r.val,
                         !.M = m2, !.returned = TRUE, !.nres = 0]

\* M: the machine with the call's arguments on the stack; warnRc: what
\* log_warn returns when called.  err # "none" is a luaL_error, which does
\* not return to the handler; M of the result is the machine at that point.
ext_require_rerun(M, warnRc) ==
    LET warned == lua_gettop(M) # 0
        m1 == lua_getglobal(M, EM_ENV_VAR_NAME)
        r == to_userdata_pointer(m1, Top(m1), EXT_ENV)
        m2 == lua_pop(m1, 1)
        res == [M |-> M, warned |-> warned, fatal |-> warned /\ warnRc # 0,
                resolved |-> FALSE, bound |-> Nil, env |-> "?",
                err |-> "none", returned |-> FALSE, nres |-> 0]
    IN  IF warned /\ warnRc # 0
        THEN [res EXCEPT !.err = "Warnings are fatal"]
        ELSE IF r.rc # 0
        THEN [res EXCEPT !.M = m2, !.resolved = TRUE, !.bound = Top(m1),
                         !.err = "Invalid internal value"]
        ELSE [res EXCEPT !.resolved = TRUE, !.bound = Top(m1), !.env = r.val,
                         !.M = [m2 EXCEPT !.ext.require_extra_run = TRUE],
                         !.returned = TRUE, !.nres = 0]

\* ==================================================================== state
VARIABLES
    ext,      \* the ExtensionEnv: require_extra_run, iter_num and its four LuaPointers
    lua,      \* ext->state: the Lua runtime (globals, loaded libraries)
    steps,    \* runtime API calls made by make_ext_env and dest_ext_env, in order
    params,   \* the ExtParams make_ext_env was called with
    pc,       \* "uninit", "load_extensions", "created", "closing" or "destroyed"
    rcs,      \* statuses: of load_libraries, of load_extensions, of make_ext_env
    last      \* the latest operation and, for ext_require_rerun, its outcome

vars == << ext, lua, steps, params, pc, rcs, last >>

Machine == [ext |-> ext, lua |-> lua, steps |-> steps]

Params == [sandbox_lvl : Levels, styler : {"params.styler"}, args : {"params.args"},
           mt_names_list : {"params.mt_names_list"}]

NoCall == [nargs |-> 0, warned |-> FALSE, fatal |-> FALSE, resolved |-> FALSE,
           bound |-> Nil, env |-> "?", err |-> "none", returned |-> FALSE,
           nres |-> 0, flagBefore |-> FALSE, stack |-> << >>]

Last(op) == [op |-> op, call |-> NoCall]

Init ==
    /\ ext \in [require_extra_run : BOOLEAN, iter_num : 0..MaxIter,
                styler : {Unallocated}, selfp : {Unallocated},
                args : {Unallocated}, mt_names_list : {Unallocated}]
    /\ lua = [status |-> "none", globals |-> [g \in GlobalNames |-> Nil],
              loaded |-> {}, node_types |-> [k \in {} |-> 0], stack |-> << >>]
    /\ steps = << >>
    /\ params \in Params
    /\ pc = "uninit"
    /\ rcs = [lib |-> << >>, ext |-> << >>, make |-> << >>]
    /\ last = Last("none")

\* ================================================================== actions
\* make_ext_env(ext, params), up to its return or its call of load_extensions
MakeExtEnv ==
    /\ pc = "uninit"
    /\ \E rcStd \in RcValues :
         LET r == make_ext_env(Machine, params, rcStd)
         IN  /\ ext' = r.M.ext
             /\ lua' = r.M.lua
             /\ IF calls_load_extensions(r.rc)
                THEN /\ pc' = "load_extensions"
                     /\ steps' = Append(r.M.steps,
                                        [act |-> "load_extensions", name |-> "state", val |-> Nil])
                     /\ rcs' = [lib |-> << r.rc >>, ext |-> << >>, make |-> << >>]
                     /\ last' = Last("load_extensions")
                ELSE /\ pc' = "created"
                     /\ steps' = r.M.steps
                     /\ rcs' = [lib |-> << r.rc >>, ext |-> << >>, make |-> << r.rc >>]
                     /\ last' = Last("make_ext_env")
    /\ UNCHANGED params

\* line 61: load_extensions returns and make_ext_env returns its status
LoadExtensionsReturn ==
    /\ pc = "load_extensions"
    /\ \E rcExt \in RcValues :
         rcs' = [rcs EXCEPT !.ext = << rcExt >>, !.make = << rcExt >>]
    /\ pc' = "created"
    /\ last' = Last("make_ext_env")
    /\ UNCHANGED << ext, lua, steps, params >>

GuestRunning ==
    /\ lua.status \in {"open", "closing"}
    /\ pc \in {"load_extensions", "created", "closing"}

\* the stack of a C function called with nargs arguments
CallFrame(M, nargs) == [M EXCEPT !.lua.stack = [i \in 1..nargs |-> Integer(i)]]

\* guest code calls requires_reiter with nargs arguments; when the call ends,
\* by return or by error, the runtime discards its stack
GuestCallRerun ==
    /\ GuestRunning
    /\ \E nargs \in 0..MaxArgs, warnRc \in {0, 1} :
         LET r == ext_require_rerun(CallFrame(Machine, nargs), warnRc)
         IN  /\ ext' = r.M.ext
             /\ lua' = [r.M.lua EXCEPT !.stack = << >>]
             /\ last' = [op |-> "ext_require_rerun",
                         call |-> [nargs |-> nargs, warned |-> r.warned, fatal |-> r.fatal,
                                   resolved |-> r.resolved, bound |-> r.bound, env |-> r.env,
                                   err |-> r.err, returned |-> r.returned, nres |-> r.nres,
                                   flagBefore |-> ext.require_extra_run,
                                   stack |-> r.M.lua.stack]]
    /\ UNCHANGED << steps, params, pc, rcs >>

GuestWritable == { EM_ENV_VAR_NAME, USER_VAR }

GuestReadable ==
    { EM_ENV_VAR_NAME, EM_ARGS_VAR_NAME, EM_MT_NAMES_LIST_VAR_NAME, STYLER_LP_LOC, USER_VAR }

\* guest code assigns a global: nil or a value it read from a global; the
\* finalisers run by lua_close are taken to make calls only
GuestSetGlobal ==
    /\ GuestRunning
    /\ pc # "closing"
    /\ \E name \in GuestWritable,
          val \in {Nil} \cup { lua.globals[g] : g \in GuestReadable } :
         /\ lua.globals[name] # val
         /\ lua' = [lua EXCEPT !.globals[name] = val]
    /\ last' = Last("guest_assignment")
    /\ UNCHANGED << ext, steps, params, pc, rcs >>

FinaliseEnvForTypesetting ==
    /\ pc = "created"
    /\ lua.status = "open"
    /\ LET m == finalise_env_for_typesetting(Machine)
       IN  /\ ext' = m.ext
           /\ lua' = m.lua
           /\ steps' = m.steps
    /\ last' = Last("finalise_env_for_typesetting")
    /\ UNCHANGED << params, pc, rcs >>

\* the typesetting driver starts the next pass
DriverStartPass ==
    /\ pc = "created"
    /\ lua.status = "open"
    /\ ext.iter_num < MaxIter
    /\ ext' = [ext EXCEPT !.require_extra_run = FALSE, !.iter_num = @ + 1]
    /\ last' = Last("driver_start_pass")
    /\ UNCHANGED << lua, steps, params, pc, rcs >>

\* dest_ext_env(ext) up to its call of lua_close
DestExtEnv ==
    /\ pc = "created"
    /\ LET m == dest_ext_env_close(Machine)
       IN  /\ ext' = m.ext
           /\ lua' = m.lua
           /\ steps' = m.steps
    /\ pc' = "closing"
    /\ last' = Last("lua_close")
    /\ UNCHANGED << params, rcs >>

\* lua_close returns and dest_ext_env releases the handles; the outcome of a
\* rerun request made while the runtime was closing stays on record
DestExtEnvReturn ==
    /\ pc = "closing"
    /\ LET m == dest_ext_env(Machine)
       IN  /\ ext' = m.ext
           /\ lua' = m.lua
           /\ steps' = m.steps
    /\ pc' = "destroyed"
    /\ last' = [op |-> "dest_ext_env", call |-> last.call]
    /\ UNCHANGED << params, rcs >>

Next ==
    \/ MakeExtEnv
    \/ LoadExtensionsReturn
    \/ GuestCallRerun
    \/ GuestSetGlobal
    \/ FinaliseEnvForTypesetting
    \/ DriverStartPass
    \/ DestExtEnv
    \/ DestExtEnvReturn

Spec == Init /\ [][Next]_vars

\* =================================================================== claims
Created == pc \in {"load_extensions", "created", "closing", "destroyed"}

Level == params.sandbox_lvl

Universal == LibNamesOf(lua_std_libs_universal)

\* an environment nothing has been stored in yet
BlankEnv ==
    [ext |-> [require_extra_run |-> FALSE, iter_num |-> 0, styler |-> Unallocated,
              selfp |-> Unallocated, args |-> Unallocated, mt_names_list |-> Unallocated],
     lua |-> [status |-> "none", globals |-> [g \in GlobalNames |-> Nil], loaded |-> {},
              node_types |-> [k \in {} |-> 0], stack |-> << >>],
     steps |-> << >>]

\* the libraries load_libraries registers in a fresh runtime at level L
RegisteredAt(L) ==
    load_libraries(luaL_newstate(BlankEnv), [params EXCEPT !.sandbox_lvl = L], 0).M.lua.loaded

\* make_ext_env has just run load_libraries: nothing else writes lua.loaded
LibrariesLoaded == last.op \in {"load_extensions", "make_ext_env"}

\* C1 as stated: the libraries registered at a lower level are a subset of
\* those registered at a higher level.
C1_GrowsWithLevel ==
    LibrariesLoaded => \A L \in Levels :
        /\ L < Level => RegisteredAt(L) \subseteq lua.loaded
        /\ Level < L => lua.loaded \subseteq RegisteredAt(L)

\* C1 amended: the libraries registered at a higher level are a subset of
\* those registered at a lower level (capabilities shrink as the level grows).
C1_ShrinksWithLevel ==
    LibrariesLoaded => \A L \in Levels :
        /\ L < Level => lua.loaded \subseteq RegisteredAt(L)
        /\ Level < L => RegisteredAt(L) \subseteq lua.loaded

C1_Witness ==
    /\ pc = "created"
    /\ Level = 1
    /\ lua.loaded # RegisteredAt(0) /\ lua.loaded \subseteq RegisteredAt(0)
    /\ lua.loaded # RegisteredAt(2) /\ RegisteredAt(2) \subseteq lua.loaded

TierRows ==
    { [max |-> 2, lib |-> lua_std_libs_universal],
      [max |-> 1, lib |-> lua_std_libs_restriction_lvl_1],
      [max |-> 0, lib |-> lua_std_libs_restriction_lvl_0] }

\* C2: every library of a tier row is registered iff the sandbox level is at
\* most the row's max-level; os is present at level 0 and absent at level 2.
C2_RowLoadedIffLevelAtMost ==
    Created =>
        /\ \A row \in TierRows : \A name \in LibNamesOf(row.lib) :
              name \in lua.loaded <=> Level <= row.max
        /\ Level = 0 => "os" \in lua.loaded
        /\ Level = 2 => "os" \notin lua.loaded

C2_Witness == pc = "created" /\ Level = 0 /\ "os" \in lua.loaded /\ "io" \in lua.loaded

\* C3 as stated: at every level >= 2 the universal set and neither io nor os;
\* at every level >= 1 also io; at every level >= 0 also os.
C3_GrantedFromLevelUp ==
    Created =>
        /\ Level >= 2 => /\ Universal \subseteq lua.loaded
                         /\ "io" \notin lua.loaded
                         /\ "os" \notin lua.loaded
        /\ Level >= 1 => "io" \in lua.loaded
        /\ Level >= 0 => "os" \in lua.loaded

\* C3 amended: at level 2 exactly the universal set; at every level <= 1 the
\* universal set and io; at every level <= 0 os as well; above 2 nothing.
C3_GrantedFromLevelDown ==
    Created =>
        /\ Level > 2 => lua.loaded = {}
        /\ Level = 2 => lua.loaded = Universal
        /\ Level <= 1 => Universal \cup {"io"} \subseteq lua.loaded
        /\ Level = 1 => "os" \notin lua.loaded
        /\ Level <= 0 => lua.loaded = Universal \cup {"io", "os"}

C3_Witness == pc = "created" /\ Level = 1 /\ lua.loaded = Universal \cup {"io"}

Returned == last.op = "make_ext_env"

\* C4: when make_ext_env has returned, with whatever status, the rerun flag is
\* true, the iteration counter is 0 and the pass-index global was set to 0.
C4_FlagAndCounterAfterCreate ==
    Returned =>
        /\ ext.require_extra_run = TRUE
        /\ ext.iter_num = 0
        /\ \E i \in DOMAIN steps :
              steps[i] = [act |-> "lua_setglobal", name |-> EM_ITER_NUM_VAR_NAME,
                          val |-> Integer(0)]

C4_Witness == Returned /\ rcs.lib = << 0 >> /\ rcs.make = << 1 >> /\ Level = 3

Rerun == last.op = "ext_require_rerun"

\* C5: a call of the rerun request with zero arguments sets the rerun flag,
\* emits no warning, raises no error and returns zero values.
C5_ZeroArgsAlwaysSucceeds ==
    (Rerun /\ last.call.nargs = 0) =>
        /\ ext.require_extra_run = TRUE
        /\ ~last.call.warned
        /\ last.call.err = "none"
        /\ last.call.returned /\ last.call.nres = 0

\* C6: a call of the rerun request with arguments emits a warning and then
\* either the warning is not fatal and the flag is set, or the warning is
\* fatal and the error is raised before the self-handle is resolved.
C6_ArgsWarnThenSetOrFatal ==
    (Rerun /\ last.call.nargs >= 1) =>
        /\ last.call.warned
        /\ \/ ~last.call.fatal /\ ext.require_extra_run = TRUE
           \/ /\ last.call.fatal
              /\ last.call.err = "Warnings are fatal"
              /\ ~last.call.resolved
              /\ ext.require_extra_run = last.call.flagBefore

\* C7: finalise_env_for_typesetting and the rerun request never clear the
\* rerun flag, and only the rerun request sets it on a created environment.
C7_FlagMonotone ==
    [][ (pc \in {"load_extensions", "created", "closing"}) =>
          /\ (last'.op \in {"finalise_env_for_typesetting", "ext_require_rerun"}
                /\ ext.require_extra_run) => ext'.require_extra_run
          /\ (~ext.require_extra_run /\ ext'.require_extra_run)
                => last'.op = "ext_require_rerun" ]_vars

C7_Witness == Rerun /\ ~last.call.flagBefore /\ ext.require_extra_run

IsHandle(v) == v.kind = "lightuserdata" /\ v.ref \in HandleFields

\* C8: the tag check of the rerun request succeeds iff the value bound to the
\* self-handle global is a handle tagged EXT_ENV; for the handle set_globals
\* installed it succeeds, for a handle of another tag "Invalid internal value"
\* is raised and the flag is not set.
C8_TagCheck ==
    (Rerun /\ last.call.resolved) =>
        LET b == last.call.bound
            isEnv == IsHandle(b) /\ ext[b.ref].type = EXT_ENV
        IN  /\ last.call.err = "none" <=> isEnv
            /\ b = LightUserdata("selfp") => last.call.err = "none"
            /\ (IsHandle(b) /\ ext[b.ref].type \in {STYLER, PARSED_ARGS, MT_NAMES_LIST})
                  => last.call.err = "Invalid internal value"
            /\ last.call.err # "none" =>
                  /\ last.call.err = "Invalid internal value"
                  /\ ~last.call.returned
                  /\ ext.require_extra_run = last.call.flagBefore

C8_Witness ==
    /\ Rerun
    /\ last.call.bound = LightUserdata("args")
    /\ last.call.err = "Invalid internal value"
    /\ ~ext.require_extra_run

\* C9: while the runtime is live the self-handle global resolves, with tag
\* EXT_ENV, to the environment that owns the runtime.
C9_SelfHandleAlwaysResolves ==
    GuestRunning =>
        to_userdata_pointer(Machine, lua.globals[EM_ENV_VAR_NAME], EXT_ENV)
            = [rc |-> 0, val |-> "ext"]

InvokedLoadExtensions == \E i \in DOMAIN steps : steps[i].act = "load_extensions"

\* C10: make_ext_env returns the non-zero status of load_libraries without
\* invoking load_extensions, otherwise the status of load_extensions; it
\* returns 0 only if both returned 0.
C10_StatusPropagated ==
    Len(rcs.make) = 1 =>
        /\ rcs.lib # << 0 >> =>
              /\ rcs.make = rcs.lib
              /\ rcs.ext = << >>
              /\ ~InvokedLoadExtensions
        /\ rcs.lib = << 0 >> =>
              /\ InvokedLoadExtensions
              /\ Len(rcs.ext) = 1
              /\ rcs.make = rcs.ext
        /\ rcs.make = << 0 >> => (rcs.lib = << 0 >> /\ rcs.ext = << 0 >>)

C10_Witness == Returned /\ rcs.lib = << 1 >> /\ rcs.make = << 1 >> /\ ~InvokedLoadExtensions

\* ---------------------------------------------------------------- C11..C19
StepsOf(act) == { i \in DOMAIN steps : steps[i].act = act }

Named(act, name) == { i \in StepsOf(act) : steps[i].name = name }

\* the state make_ext_env leaves at its call of load_extensions or, when the
\* libraries failed to load, at its return
JustInjected == last.op = "load_extensions" \/ (Returned /\ rcs.ext = << >>)

TagOf(f) ==
    CASE f = "styler" -> STYLER
      [] f = "selfp" -> EXT_ENV
      [] f = "args" -> PARSED_ARGS
      [] f = "mt_names_list" -> MT_NAMES_LIST

\* C11: whenever make_ext_env has returned, with any status, the runtime is
\* open and the four handles are allocated and initialised, and the
\* dest_ext_env that follows closes an open runtime and frees allocated
\* handles only.
C11_Destroyable ==
    /\ pc = "created" =>
          /\ Len(rcs.make) = 1
          /\ lua.status = "open"
          /\ \A f \in HandleFields : ext[f].mem = "alloc" /\ ext[f].type = TagOf(f)
    /\ pc = "closing" => lua.status = "closing"
    /\ pc = "destroyed" =>
          /\ lua.status = "closed"
          /\ \A f \in HandleFields : ext[f].mem = "freed"

C11_Witness ==
    /\ pc = "destroyed"
    /\ rcs.lib = << 0 >> /\ rcs.make = << 1 >>
    /\ \A f \in HandleFields : ext[f].mem = "freed"

\* C12: dest_ext_env closes the runtime once, before it releases any handle,
\* and releases each handle once; while guest code can run (also while the
\* runtime closes) every handle is still allocated, and after dest_ext_env no
\* guest code can run.
C12_CloseThenFreeOnce ==
    LET closes == StepsOf("lua_close")
        frees == StepsOf("free")
        freesOf(f) == { i \in frees : steps[i].name = f }
    IN  /\ Cardinality(closes) <= 1
        /\ \A f \in HandleFields : Cardinality(freesOf(f)) <= 1
        /\ \A i \in frees : \E j \in closes : j < i
        /\ frees # {} => lua.status = "closed"
        /\ (GuestRunning \/ lua.status \in {"open", "closing"}) =>
              \A f \in HandleFields : ext[f].mem = "alloc"
        /\ pc = "destroyed" =>
              /\ ~GuestRunning
              /\ Cardinality(closes) = 1
              /\ \A f \in HandleFields : Cardinality(freesOf(f)) = 1 /\ ext[f].mem = "freed"

C12_Witness ==
    /\ pc = "destroyed"
    /\ last.call.returned /\ last.call.bound = LightUserdata("selfp")
    /\ Cardinality(StepsOf("free")) = 4

NodeTypeIndices == 0..(node_tree_content_type_names_len - 1)

\* C13: after set_globals the node-type table has one entry per name of
\* node_tree_content_type_names, and the entry of the i-th name is i.
C13_NodeTypesTable ==
    JustInjected =>
        /\ lua.globals[EM_NODE_TYPES_TABLE] = Table(EM_NODE_TYPES_TABLE)
        /\ DOMAIN lua.node_types = { node_tree_content_type_names(i) : i \in NodeTypeIndices }
        /\ Cardinality(DOMAIN lua.node_types) = node_tree_content_type_names_len
        /\ \A i \in NodeTypeIndices : lua.node_types[node_tree_content_type_names(i)] = i

C13_Witness ==
    /\ JustInjected
    /\ Cardinality(DOMAIN lua.node_types) >= 2
    /\ lua.node_types[node_tree_content_type_names(1)] = 1

InjectedValue(name) ==
    CASE name = EM_ITER_NUM_VAR_NAME -> Integer(0)
      [] name = EM_ENV_VAR_NAME -> LightUserdata("selfp")
      [] name = EM_NODE_TYPES_TABLE -> Table(EM_NODE_TYPES_TABLE)
      [] name = EM_ARGS_VAR_NAME -> LightUserdata("args")
      [] name = EM_MT_NAMES_LIST_VAR_NAME -> LightUserdata("mt_names_list")

InjectedNames ==
    { EM_ITER_NUM_VAR_NAME, EM_ENV_VAR_NAME, EM_NODE_TYPES_TABLE, EM_ARGS_VAR_NAME,
      EM_MT_NAMES_LIST_VAR_NAME }

\* C14: set_globals binds exactly the five globals, each once, with the
\* handles tagged EXT_ENV, PARSED_ARGS and MT_NAMES_LIST, and leaves the other
\* globals, the rerun flag, the iteration counter and the styler handle alone.
C14_FiveBindings ==
    JustInjected =>
        /\ Cardinality(StepsOf("lua_setglobal")) = 5
        /\ \A n \in InjectedNames :
              /\ Cardinality(Named("lua_setglobal", n)) = 1
              /\ \A i \in Named("lua_setglobal", n) :
                    /\ steps[i].val = InjectedValue(n)
                    /\ \E a \in Named("enter", "set_globals"),
                          b \in Named("return", "set_globals") : a < i /\ i < b
              /\ lua.globals[n] = InjectedValue(n)
        /\ \A f \in {"selfp", "args", "mt_names_list"} :
              ext[f].mem = "alloc" /\ ext[f].type = TagOf(f)
        /\ lua.globals[STYLER_LP_LOC] = LightUserdata("styler")
        /\ lua.globals[USER_VAR] = Nil
        /\ ext.require_extra_run = TRUE
        /\ ext.iter_num = 0
        /\ ext.styler = [mem |-> "alloc", type |-> STYLER, data |-> params.styler]

C14_Witness ==
    /\ JustInjected
    /\ Cardinality(StepsOf("lua_setglobal")) = 5
    /\ lua.globals[EM_MT_NAMES_LIST_VAR_NAME] = LightUserdata("mt_names_list")

SelfHandleIntact == lua.globals[EM_ENV_VAR_NAME] = LightUserdata("selfp")

\* C15: finalise_env_for_typesetting only detaches the styler: the
\* environment, the other globals and the open runtime are as before, a
\* rerun request with an intact self-handle still succeeds, and dest_ext_env
\* afterwards releases every handle once.
C15_FinaliseOnlyDetaches ==
    [][ /\ last'.op = "finalise_env_for_typesetting" =>
              /\ ext' = ext
              /\ lua' = [lua EXCEPT !.globals[STYLER_LP_LOC] = Nil]
              /\ lua'.status = "open"
              /\ steps' = steps /\ pc' = pc
              /\ SelfHandleIntact => ext_require_rerun(CallFrame(Machine, 0), 0)'.returned
        /\ last'.op = "dest_ext_env" =>
              \A f \in HandleFields : ext'[f].mem = "freed" /\ Cardinality(Named("free", f))' = 1
      ]_vars

C15_Witness ==
    /\ last.op = "finalise_env_for_typesetting"
    /\ ext.iter_num >= 2
    /\ lua.globals[STYLER_LP_LOC] = Nil
    /\ ext.styler.mem = "alloc" /\ lua.status = "open"

\* C16: a rerun request that raises an error leaves the environment, its
\* handles, the globals and the runtime exactly as they were, and a later
\* zero-argument request with an intact self-handle succeeds.
C16_ErrorLeavesEnvIntact ==
    [][ /\ (last'.op = "ext_require_rerun" /\ last'.call.err # "none") =>
              /\ ext' = ext
              /\ lua' = lua
              /\ steps' = steps /\ pc' = pc
        /\ (last'.op = "ext_require_rerun" /\ last'.call.nargs = 0 /\ SelfHandleIntact) =>
              /\ last'.call.err = "none"
              /\ last'.call.returned
              /\ ext'.require_extra_run
      ]_vars

C16_Witness ==
    /\ Rerun
    /\ last.call.err = "Warnings are fatal"
    /\ ~ext.require_extra_run
    /\ SelfHandleIntact /\ lua.status = "open"

Rank(st) ==
    CASE st.act = "init_fields" -> 1
      [] st.act = "malloc" /\ st.name = "styler" -> 1
      [] st.act = "provide_styler" -> 2
      [] st.act = "malloc" /\ st.name # "styler" -> 3
      [] st.act = "lua_setglobal" -> 3
      [] st.act \in {"enter", "return"} /\ st.name = "set_globals" -> 3
      [] st.act = "luaL_requiref" -> 4
      [] st.act \in {"enter", "return"} /\ st.name = "load_library_set" -> 4
      [] st.act = "lua_register" -> 5
      [] st.act = "load_em_std_lib" -> 6
      [] st.act = "load_extensions" -> 7
      [] st.act = "lua_close" -> 8
      [] st.act = "free" -> 9

HostCallables ==
    { EM_EVAL_NODE_FUNC_NAME, EM_IMPORT_STYLESHEET_FUNC_NAME, EM_REQUIRE_RUNS_FUNC_NAME,
      EM_INCLUDE_FILE_FUNC_NAME }

\* C17: make_ext_env initialises the fields and creates the styler handle,
\* attaches the styler, injects the globals, loads the tier rows, registers
\* the host callables, loads the host library and only then, at most once and
\* only if that succeeded, calls load_extensions.
C17_OrderOfSteps ==
    (last.op \in {"load_extensions", "make_ext_env"}) =>
        /\ \A i \in 1..(Len(steps) - 1) : Rank(steps[i]) <= Rank(steps[i + 1])
        /\ \A r \in {1, 2, 3, 5, 6} : \E i \in DOMAIN steps : Rank(steps[i]) = r
        /\ Cardinality(StepsOf("load_extensions")) <= 1
        /\ Cardinality(StepsOf("load_em_std_lib")) = 1
        /\ InvokedLoadExtensions <=> rcs.lib = << 0 >>
        /\ InvokedLoadExtensions =>
              /\ steps[Len(steps)].act = "load_extensions"
              /\ { steps[i].name : i \in StepsOf("luaL_requiref") } = lua.loaded
              /\ { steps[i].name : i \in StepsOf("lua_register") } = HostCallables

C17_Witness ==
    /\ pc = "load_extensions"
    /\ Level = 0
    /\ steps[Len(steps)].act = "load_extensions"
    /\ steps[1].act = "init_fields"

\* C18: at every sandbox level the four host callables are registered, after
\* the tier rows and before the host library and the extension loader.
C18_CallablesAtEveryLevel ==
    (last.op \in {"load_extensions", "make_ext_env"}) =>
        /\ Cardinality(StepsOf("lua_register")) = 4
        /\ \A n \in HostCallables : Cardinality(Named("lua_register", n)) = 1
        /\ \A i \in StepsOf("lua_register") :
              /\ \A j \in StepsOf("luaL_requiref") \cup Named("return", "load_library_set") : j < i
              /\ \A k \in StepsOf("load_em_std_lib") \cup StepsOf("load_extensions") : i < k
        /\ JustInjected => \A n \in HostCallables : lua.globals[n].kind = "function"
        /\ JustInjected =>
              lua.globals[EM_REQUIRE_RUNS_FUNC_NAME] = CFunction("ext_require_rerun")

C18_Witness ==
    /\ JustInjected
    /\ Level = 3
    /\ lua.loaded = {}
    /\ lua.globals[EM_REQUIRE_RUNS_FUNC_NAME] = CFunction("ext_require_rerun")

\* the entry that a return in the log belongs to
EnterOf(j) ==
    CHOOSE i \in Named("enter", steps[j].name) :
        /\ i < j
        /\ \A k \in Named("enter", steps[j].name) : k < j => k <= i

\* C19: set_globals and load_library_set return with the stack as high as
\* they found it, and ext_require_rerun has popped the self-handle when it
\* raises or returns: the stack then holds the caller's arguments, and 0
\* results are reported.
C19_StackBalanced ==
    /\ lua.stack = << >>
    /\ JustInjected =>
          /\ Named("return", "set_globals") # {}
          /\ \A j \in StepsOf("return") : steps[EnterOf(j)].val = steps[j].val
    /\ Rerun =>
          /\ last.call.stack = [i \in 1..last.call.nargs |-> Integer(i)]
          /\ last.call.returned => last.call.nres = 0

C19_Witness ==
    /\ Rerun
    /\ last.call.nargs = 1
    /\ last.call.err = "Invalid internal value"
    /\ Len(last.call.stack) = 1
    /\ Cardinality(Named("return", "load_library_set")) = 3

====
